---- MODULE Spec2Model ----
\* Model of date_component::calculate (src/src/lib.rs) and of the parts of the
\* chrono / chrono_tz collaborator it calls: civil fields of a zoned instant,
\* zone conversion, civil-time resolution and signed durations.
EXTENDS Integers, Sequences, FiniteSets, TLC

VARIABLES from_datetime, to_datetime, cargo_profile, pc, result, swapped, rezoned,
          requested, nearest_day

vars == <<from_datetime, to_datetime, cargo_profile, pc, result, swapped, rezoned,
          requested, nearest_day>>

\* ---------------------------------------------------------------- bounds
\* Each anchor date of the inputs is used together with the MaxDayShift
\* calendar days that follow it.
MaxDayShift == 1

\* ------------------------------------------------- proleptic Gregorian calendar
Abs(x) == IF x < 0 THEN -x ELSE x

\* Rust's integer division truncates toward zero.
TruncDiv(a, b) == IF a >= 0 THEN a \div b ELSE -((-a) \div b)

IsLeap(y) == (y % 4 = 0 /\ y % 100 # 0) \/ y % 400 = 0

DaysInMonth(y, m) ==
    IF m = 2 THEN (IF IsLeap(y) THEN 29 ELSE 28)
    ELSE IF m \in {4, 6, 9, 11} THEN 30 ELSE 31

\* Days from 1970-01-01 to the civil date y-m-d.
DaysFromCivil(y, m, d) ==
    LET yy  == IF m <= 2 THEN y - 1 ELSE y
        era == yy \div 400
        yoe == yy - era * 400
        mp  == IF m > 2 THEN m - 3 ELSE m + 9
        doy == (153 * mp + 2) \div 5 + d - 1
        doe == yoe * 365 + yoe \div 4 - yoe \div 100 + doy
    IN  era * 146097 + doe - 719468

\* The civil date <<y, m, d>> of a day number, in four steps: the day of the
\* 400-year era, the year of the era, the day of the (March-based) year, and
\* the month and day.
CivilOfDoy(y, doy) ==
    LET mp == (5 * doy + 2) \div 153
        d  == doy - (153 * mp + 2) \div 5 + 1
        m  == IF mp < 10 THEN mp + 3 ELSE mp - 9
    IN  <<IF m <= 2 THEN y + 1 ELSE y, m, d>>

CivilOfYoe(era, doe, yoe) ==
    CivilOfDoy(yoe + era * 400, doe - (365 * yoe + yoe \div 4 - yoe \div 100))

CivilOfDoe(era, doe) ==
    CivilOfYoe(era, doe,
               (doe - doe \div 1460 + doe \div 36524 - doe \div 146096) \div 365)

CivilFromDays(z) ==
    CivilOfDoe((z + 719468) \div 146097, (z + 719468) % 146097)

\* Day of month of the first Sunday of month m of year y (1970-01-01 was a Thursday).
FirstSunday(y, m) ==
    LET w == (DaysFromCivil(y, m, 1) + 4) % 7
    IN  1 + ((7 - w) % 7)

\* ---------------------------------------------------------------- zones
Zones == {"UTC", "Los_Angeles", "Sydney"}

\* The UTC second at which civil y-m-d h:00:00, read with offset off, occurs.
UtcOf(y, m, d, h, off) == DaysFromCivil(y, m, d) * 86400 + h * 3600 - off

\* UTC offset, in seconds, of zone tz at the UTC second ts of UTC year y.
\*   Los_Angeles: PST -8h; PDT -7h from the second Sunday of March 02:00 PST
\*                to the first Sunday of November 02:00 PDT.
\*   Sydney:      AEST +10h; AEDT +11h from the first Sunday of October 02:00 AEST
\*                to the first Sunday of April 03:00 AEDT.
OffsetInYear(tz, ts, y) ==
    CASE tz = "UTC" -> 0
      [] tz = "Los_Angeles" ->
            IF /\ ts >= UtcOf(y, 3, FirstSunday(y, 3) + 7, 2, -28800)
               /\ ts < UtcOf(y, 11, FirstSunday(y, 11), 2, -25200)
            THEN -25200 ELSE -28800
      [] tz = "Sydney" ->
            IF /\ ts >= UtcOf(y, 4, FirstSunday(y, 4), 3, 39600)
               /\ ts < UtcOf(y, 10, FirstSunday(y, 10), 2, 36000)
            THEN 36000 ELSE 39600

\* UTC offset, in seconds, of zone tz at the UTC second ts.
OffsetAt(tz, ts) == OffsetInYear(tz, ts, CivilFromDays(ts \div 86400)[1])

\* The offsets zone tz ever uses.
OffsetsOf(tz) ==
    CASE tz = "UTC" -> {0}
      [] tz = "Los_Angeles" -> {-28800, -25200}
      [] tz = "Sydney" -> {36000, 39600}

\* ------------------------------------------------------------ DateTime<Tz>
\* A zoned instant: the UTC second ts, the sub-second part ms (milliseconds)
\* and the attached zone tz.
DateTime(ts, ms, tz) == [ts |-> ts, ms |-> ms, tz |-> tz]

\* Civil fields of the local second count local (seconds from 1970-01-01
\* 00:00:00 on the zone's own clock) whose civil date is ymd.
FieldsOfLocal(local, ymd) ==
    [year |-> ymd[1], month |-> ymd[2], day |-> ymd[3],
     hour |-> (local % 86400) \div 3600, minute |-> (local % 3600) \div 60,
     second |-> local % 60]

LocalFields(local) == FieldsOfLocal(local, CivilFromDays(local \div 86400))

\* Civil fields of a zoned instant in its attached zone (Datelike::year, month,
\* day and Timelike::hour, minute, second).
Fields(dt) == LocalFields(dt.ts + OffsetAt(dt.tz, dt.ts))

\* DateTime::with_timezone: the same physical instant, another attached zone.
with_timezone(dt, tz) == DateTime(dt.ts, dt.ms, tz)

\* The LocalResult of a civil time that the UTC seconds sols map to: <<>> for
\* None, <<t>> for Single, <<earliest, latest>> for Ambiguous.
LocalResult(sols, tz) ==
    IF sols = {} THEN <<>>
    ELSE IF Cardinality(sols) = 1
         THEN <<DateTime(CHOOSE t \in sols : TRUE, 0, tz)>>
         ELSE <<DateTime(CHOOSE t \in sols : \A u \in sols : t <= u, 0, tz),
                DateTime(CHOOSE t \in sols : \A u \in sols : t >= u, 0, tz)>>

\* TimeZone::from_local_datetime: the UTC seconds at which the clock of zone tz
\* shows the local second count l (none in a gap, two in an overlap).
from_local_datetime(tz, l) ==
    LocalResult({l - o : o \in {x \in OffsetsOf(tz) : OffsetAt(tz, l - x) = x}}, tz)

\* TimeZone::with_ymd_and_hms: None (<<>>) for an invalid date, else the
\* LocalResult of the civil time in timezone tz.
with_ymd_and_hms(tz, y, m, d, h, mi, s) ==
    IF d < 1 \/ d > DaysInMonth(y, m) THEN <<>>
    ELSE from_local_datetime(tz, DaysFromCivil(y, m, d) * 86400 + h * 3600 + mi * 60 + s)

\* DateTime::signed_duration_since: a - b as whole seconds (floor) plus a
\* non-negative sub-second part.
signed_duration_since(a, b) ==
    IF a.ms >= b.ms THEN [secs |-> a.ts - b.ts, ms |-> a.ms - b.ms]
    ELSE [secs |-> a.ts - b.ts - 1, ms |-> a.ms - b.ms + 1000]

\* TimeDelta::num_seconds and friends: whole units, truncated toward zero.
num_seconds(d) == IF d.secs < 0 /\ d.ms > 0 THEN d.secs + 1 ELSE d.secs
num_minutes(d) == TruncDiv(num_seconds(d), 60)
num_hours(d)   == TruncDiv(num_seconds(d), 3600)
num_days(d)    == TruncDiv(num_seconds(d), 86400)

\* ------------------------------------------------------------ the library
\* How integer overflow behaves under the cargo profile of the build: debug
\* panics on it, release wraps around.
Profiles == {"debug", "release"}

\* What a call that does not return a value does instead.
Panic == [status |-> "panic"]
Hang  == [status |-> "hang"]

RECURSIVE nearest_day_loop(_, _, _, _, _, _, _, _, _)
\* nearest_day_match returning the second instant of Ambiguous.
nearest_day_match_latest(r, year, month, day, hour, min, sec, timezone, subtract, profile) ==
    IF r = <<>>
    THEN nearest_day_loop(year, month, day, hour, min, sec, timezone, subtract + 1, profile)
    ELSE [status |-> "ok", d |-> r[Len(r)], subtract |-> subtract]

\* One arm of the match in get_nearest_day_before, on the LocalResult r of
\* day - subtract: None adds 1 to subtract and loops, Single and Ambiguous
\* return their (first) instant.
nearest_day_match(r, year, month, day, hour, min, sec, timezone, subtract, profile) ==
    IF r = <<>>
    THEN nearest_day_loop(year, month, day, hour, min, sec, timezone, subtract + 1, profile)
    ELSE [status |-> "ok", d |-> r[1], subtract |-> subtract]

\* The loop of get_nearest_day_before with its counter subtract. Once
\* subtract exceeds day the u32 subtraction day - subtract overflows: a debug
\* build panics; a release build wraps, no wrapped day is valid, and the
\* counter comes back to 0 with nothing changed, so the loop never ends.
nearest_day_loop(year, month, day, hour, min, sec, timezone, subtract, profile) ==
    IF subtract > day
    THEN (IF profile = "debug" THEN Panic ELSE Hang)
    ELSE nearest_day_match(
             with_ymd_and_hms(timezone, year, month, day - subtract, hour, min, sec),
             year, month, day, hour, min, sec, timezone, subtract, profile)

\* get_nearest_day_before: the first day - subtract, subtract = 0, 1, ..., that
\* with_ymd_and_hms resolves (Single, or the first of Ambiguous) in timezone.
get_nearest_day_before(year, month, day, hour, min, sec, timezone, profile) ==
    nearest_day_loop(year, month, day, hour, min, sec, timezone, 0, profile)

\* The DateComponent calculate returns.
DateComponent(year, month, week, modulo_days, day, hour, minute, second, interval_seconds, interval_minutes, interval_hours, interval_days, invert) ==
    [status |-> "ok", year |-> year, month |-> month, week |-> week,
     modulo_days |-> modulo_days, day |-> day, hour |-> hour, minute |-> minute,
     second |-> second, interval_seconds |-> interval_seconds,
     interval_minutes |-> interval_minutes, interval_hours |-> interval_hours,
     interval_days |-> interval_days, invert |-> invert]

\* The ordering step of calculate: <<start, end, invert>>.
Ordering(from, to) ==
    LET seconds == num_seconds(signed_duration_since(with_timezone(from, "UTC"),
                                                     with_timezone(to, "UTC")))
    IN  IF seconds <= 0 THEN <<from, to, FALSE>> ELSE <<to, from, TRUE>>

\* flat_totals with the absolute value forgotten: the totals keep the sign of
\* from_datetime - to_datetime.
flat_totals_signed(duration) ==
    [interval_seconds |-> num_seconds(duration),
     interval_minutes |-> num_minutes(duration),
     interval_hours   |-> num_hours(duration),
     interval_days    |-> num_days(duration)]

\* The four flat totals calculate stores (lines 170-173): the magnitude of
\* the signed duration in whole seconds, minutes, hours and days.
flat_totals(duration) ==
    [interval_seconds |-> Abs(num_seconds(duration)),
     interval_minutes |-> Abs(num_minutes(duration)),
     interval_hours   |-> Abs(num_hours(duration)),
     interval_days    |-> Abs(num_days(duration))]

\* lines 54-58: the month before end's month.
previous_year(e)  == IF e.month = 1 THEN e.year - 1 ELSE e.year

\* previous_month with the step back forgotten: end's own month.
previous_month_unborrowed(e) == e.month

\* previous_month stepping back two months.
previous_month_twice(e) == IF e.month <= 2 THEN e.month + 10 ELSE e.month - 2

previous_month(e) == IF e.month = 1 THEN 12 ELSE e.month - 1

\* lines 60-92, first component: the month difference, one month borrowed
\* when end's day of month is smaller than start's.
month_after_day_borrow(s, e) ==
    IF e.day - s.day < 0 THEN e.month - s.month - 1 ELSE e.month - s.month

\* interval_day with the absolute value forgotten: the durations keep their
\* sign, negative from the earlier built date to end.
interval_day_signed(s, e, to_nearest, to_same) ==
    IF e.day - s.day < 0 THEN num_days(to_nearest) ELSE num_days(to_same)

\* interval_day as the plain difference of the days of month.
interval_day_naive(s, e, to_nearest, to_same) == Abs(e.day - s.day)

\* lines 60-92, second component: the day count, from the duration to_nearest
\* between the nearest day of the previous month and end when a month is
\* borrowed, else from the duration to_same between start's day in end's month
\* and end.
interval_day(s, e, to_nearest, to_same) ==
    IF e.day - s.day < 0 THEN Abs(num_days(to_nearest)) ELSE Abs(num_days(to_same))

\* interval_year without the borrowed year.
interval_year_unborrowed(s, e) == e.year - s.year

\* lines 94-98: a negative month difference borrows a year.
interval_year(s, e) ==
    IF month_after_day_borrow(s, e) < 0 THEN e.year - s.year - 1 ELSE e.year - s.year

\* interval_month without the twelve months of the borrowed year.
interval_month_unwrapped(s, e) == month_after_day_borrow(s, e)

interval_month(s, e) ==
    IF month_after_day_borrow(s, e) < 0 THEN month_after_day_borrow(s, e) + 12
    ELSE month_after_day_borrow(s, e)

\* lines 100-119: the week split of the day count day.
interval_week(day, to_nearest) ==
    IF day < 0 THEN Abs(num_days(to_nearest)) \div 7 ELSE day \div 7

\* modulo_days with the remainder forgotten: the whole day count.
modulo_days_unsplit(day) == day

modulo_days(day) == IF day < 0 THEN day + 7 ELSE day % 7

\* interval_hour always from the duration to_nearest, borrow or not.
interval_hour_elapsed(s, e, to_nearest) == Abs(num_hours(to_nearest))

\* lines 121-139: a negative hour difference is replaced by the whole hours
\* of to_nearest, and the minute difference is decremented.
interval_hour(s, e, to_nearest) ==
    IF e.hour - s.hour < 0 THEN Abs(num_hours(to_nearest)) ELSE e.hour - s.hour

minute_after_hour_borrow(s, e) ==
    IF e.hour - s.hour < 0 THEN e.minute - s.minute - 1 ELSE e.minute - s.minute

\* lines 141-159: a negative minute difference is replaced by the whole
\* minutes of to_nearest, and the second difference is decremented.
interval_minute(s, e, to_nearest) ==
    IF minute_after_hour_borrow(s, e) < 0 THEN Abs(num_minutes(to_nearest))
    ELSE minute_after_hour_borrow(s, e)

interval_second(s, e) ==
    IF minute_after_hour_borrow(s, e) < 0 THEN e.second - s.second - 1
    ELSE e.second - s.second

\* get_nearest_day_before is called when a day, an hour or a minute is borrowed.
calls_nearest(s, e) ==
    e.day - s.day < 0 \/ e.hour - s.hour < 0 \/ minute_after_hour_borrow(s, e) < 0

\* lines 161-175: the DateComponent built from the civil fields s and e of
\* start and end, the day count day and the durations to_nearest and duration.
component(s, e, day, to_nearest, totals, invert) ==
    DateComponent(interval_year(s, e), interval_month(s, e),
                  interval_week(day, to_nearest), modulo_days(day), day,
                  interval_hour(s, e, to_nearest), interval_minute(s, e, to_nearest),
                  interval_second(s, e),
                  totals.interval_seconds, totals.interval_minutes,
                  totals.interval_hours, totals.interval_days, invert)

\* lines 60-175, given the results nearest of get_nearest_day_before and same
\* of with_ymd_and_hms: .unwrap() panics unless same is Single; the helper's
\* panic or endless loop is that of calculate.
calculate_with(duration, end, invert, s, e, nearest, same) ==
    IF e.day - s.day >= 0 /\ Len(same) # 1 THEN Panic
    ELSE IF calls_nearest(s, e) /\ nearest.status # "ok" THEN nearest
    ELSE component(s, e,
                   interval_day(s, e, signed_duration_since(nearest.d, end),
                                signed_duration_since(same[1], end)),
                   signed_duration_since(nearest.d, end),
                   flat_totals(duration), invert)

\* lines 47-92: the civil fields s of start and e of end, each in its own
\* zone, and the two dates built from them in timezone.
calculate_fields(timezone, duration, end, invert, s, e, profile) ==
    calculate_with(duration, end, invert, s, e,
        get_nearest_day_before(previous_year(e), previous_month(e), s.day,
                               e.hour, e.minute, e.second, timezone, profile),
        with_ymd_and_hms(timezone, e.year, e.month, s.day, e.hour, e.minute, e.second))

calculate_ordered(timezone, duration, ordered, profile) ==
    calculate_fields(timezone, duration, ordered[2], ordered[3],
                     Fields(ordered[1]), Fields(ordered[2]), profile)

\* calculate(from_datetime, to_datetime): a DateComponent, or Panic / Hang when
\* the call panics or never returns.
calculate(from, to, profile) ==
    calculate_ordered(from.tz,
                      signed_duration_since(with_timezone(from, "UTC"),
                                            with_timezone(to, "UTC")),
                      Ordering(from, to), profile)

\* ---------------------------------------------------------------- inputs
\* Anchor dates <<year, month, day, zone>>: the Los_Angeles spring-forward and
\* fall-back days of 2022, the Sydney spring-forward day of 2023 (the first of
\* a month) and the first of the month after it, and a year end.
Anchors ==
    { <<2022, 3, 13, "Los_Angeles">>, <<2022, 11, 6, "Los_Angeles">>,
      <<2023, 10, 1, "Sydney">>, <<2023, 11, 1, "Sydney">>,
      <<2022, 12, 31, "UTC">> }

\* Times of day <<hour, minute, second>> of the inputs.
Times == { <<0, 0, 0>>, <<1, 30, 0>>, <<2, 30, 0>>, <<23, 59, 59>> }

\* Sub-second parts of the inputs, in milliseconds.
Millis == {0, 500}

\* The instants of a LocalResult r, each with every sub-second part.
WithMillis(r) == { DateTime(r[i].ts, ms, r[i].tz) : ms \in Millis, i \in 1..Len(r) }

\* with_ymd_and_hms in zone tz on the civil date ymd at time of day t.
OnDate(tz, ymd, t) == with_ymd_and_hms(tz, ymd[1], ymd[2], ymd[3], t[1], t[2], t[3])

\* Every instant a caller builds with with_ymd_and_hms on an anchor date or one
\* of the MaxDayShift days after it (both instants of an ambiguous civil time,
\* none for a civil time in a gap), with a sub-second part added.
Constructed ==
    UNION { WithMillis(OnDate(a[4], CivilFromDays(DaysFromCivil(a[1], a[2], a[3]) + k), t)) :
            a \in Anchors, t \in Times, k \in 0..MaxDayShift }

\* The same instants, each also converted to the other zones.
Converted == { with_timezone(c, z) : c \in Constructed, z \in Zones }

NoResult == [status |-> "none"]

\* No call of get_nearest_day_before on its own.
NoRequest == [timezone |-> "none"]

\* ---------------------------------------------------------------- actions
Init ==
    /\ from_datetime \in Constructed
    /\ to_datetime \in Converted
    /\ cargo_profile \in Profiles
    /\ pc = "ready"
    /\ result = NoResult
    /\ swapped = NoResult
    /\ rezoned = NoResult
    /\ requested = NoRequest
    /\ nearest_day = NoResult

\* calculate(&from_datetime, &to_datetime)
Calculate ==
    /\ pc = "ready"
    /\ result' = calculate(from_datetime, to_datetime, cargo_profile)
    /\ pc' = "calculated"
    /\ UNCHANGED <<from_datetime, to_datetime, cargo_profile, swapped, rezoned,
                   requested, nearest_day>>

\* calculate(&to_datetime, &from_datetime): the same two instants, swapped
Swap ==
    /\ pc = "calculated"
    /\ swapped' = calculate(to_datetime, from_datetime, cargo_profile)
    /\ pc' = "swapped"
    /\ UNCHANGED <<from_datetime, to_datetime, cargo_profile, result, rezoned,
                   requested, nearest_day>>

\* calculate(&start, &end.with_timezone(&start.timezone())): the earlier
\* instant and the later one re-expressed in the earlier one's zone
Rezone ==
    /\ pc = "swapped"
    /\ rezoned' = calculate(Ordering(from_datetime, to_datetime)[1],
                            with_timezone(Ordering(from_datetime, to_datetime)[2],
                                          Ordering(from_datetime, to_datetime)[1].tz),
                            cargo_profile)
    /\ pc' = "rezoned"
    /\ UNCHANGED <<from_datetime, to_datetime, cargo_profile, result, swapped,
                   requested, nearest_day>>

Next == Calculate \/ Swap \/ Rezone

Spec == Init /\ [][Next]_vars

\* ------------------------------------------------ calendar inputs
\* The UTC dates of the calendar inputs: WindowStart and the WindowDays days
\* after it, a run of consecutive days across a year end, the end of January
\* and the end of a leap-year February.
WindowStart == <<2019, 12, 25>>
WindowDays == 70

WindowDates ==
    { CivilFromDays(DaysFromCivil(WindowStart[1], WindowStart[2], WindowStart[3]) + k) :
      k \in 0..WindowDays }

\* Dates whole years after a date of the window: the first of January of a
\* common and of a leap year, and the next leap day.
YearMarks == { <<2021, 1, 1>>, <<2022, 1, 1>>, <<2023, 1, 1>>, <<2024, 2, 29>> }

CalendarTimes == { <<0, 0, 0>>, <<12, 34, 56>> }

\* Los_Angeles civil times <<date, time>>: the same time of day a month apart
\* across the spring-forward transition of 2022-03-13, and the same date and
\* time of day a year apart, in the repeated hour of 2022-11-06.
ZonedMarks ==
    { <<<<2022, 3, 12>>, <<2, 30, 0>>>>, <<<<2022, 4, 11>>, <<2, 30, 0>>>>,
      <<<<2021, 11, 6>>, <<1, 30, 0>>>>, <<<<2022, 11, 6>>, <<1, 30, 0>>>> }

\* The instants of a LocalResult r.
Instants(r) == { r[i] : i \in 1..Len(r) }

CalendarInstants ==
    UNION ({ Instants(OnDate("UTC", d, t)) : d \in WindowDates \cup YearMarks, t \in CalendarTimes }
           \cup { Instants(OnDate("Los_Angeles", m[1], m[2])) : m \in ZonedMarks })

InitCalendar ==
    /\ from_datetime \in CalendarInstants
    /\ to_datetime \in CalendarInstants
    /\ cargo_profile \in Profiles
    /\ pc = "ready"
    /\ result = NoResult
    /\ swapped = NoResult
    /\ rezoned = NoResult
    /\ requested = NoRequest
    /\ nearest_day = NoResult

SpecCalendar == InitCalendar /\ [][Next]_vars

\* Two ends of one start are compared when they are at most Lookback days
\* apart.
Lookback == 3

\* The UTC instants at the times of day of the calendar inputs on the day
\* number days and the Lookback days before it.
InstantsBefore(days) ==
    UNION { Instants(OnDate("UTC", CivilFromDays(days - k), t)) :
            k \in 0..Lookback, t \in CalendarTimes }

\* Those of them from start to end.
EarlierEnds(start, end) ==
    { e1 \in InstantsBefore(end.ts \div 86400) : start.ts <= e1.ts /\ e1.ts <= end.ts }

\* ------------------------------------------------ transition-day inputs
\* The days <<year, month, day, zone>> on which a zone's clock changes: the
\* spring-forward and fall-back days of Los_Angeles in 2022 and of Sydney in
\* 2022 and 2023.
TransitionDays ==
    { <<2022, 3, 13, "Los_Angeles">>, <<2022, 11, 6, "Los_Angeles">>,
      <<2022, 10, 2, "Sydney">>, <<2023, 4, 2, "Sydney">> }

\* Times of day before, in and after the skipped or repeated hour.
TransitionTimes ==
    { <<0, 30, 0>>, <<1, 30, 0>>, <<1, 59, 59>>, <<2, 30, 0>>, <<3, 0, 0>>, <<3, 30, 0>> }

TransitionInstants ==
    UNION { Instants(OnDate(a[4], a, t)) : a \in TransitionDays, t \in TransitionTimes }

InitDst ==
    /\ from_datetime \in TransitionInstants
    /\ to_datetime \in TransitionInstants
    /\ cargo_profile \in Profiles
    /\ pc = "ready"
    /\ result = NoResult
    /\ swapped = NoResult
    /\ rezoned = NoResult
    /\ requested = NoRequest
    /\ nearest_day = NoResult

SpecDst == InitDst /\ [][Next]_vars

\* ------------------------------------------------ the helper on its own
\* The largest day of month calculate passes to get_nearest_day_before.
MaxRequestDay == 31

\* Months <<year, month>> of the requests: the months of the Los_Angeles gap
\* (2022-03-13) and overlap (2022-11-06), of the Sydney gap on the first of a
\* month (2023-10-01), a 30-day month, and February of a leap and of a common
\* year.
RequestMonths ==
    { <<2022, 3>>, <<2022, 11>>, <<2023, 10>>, <<2022, 4>>, <<2020, 2>>, <<2023, 2>> }

RequestTimes == { <<1, 30, 0>>, <<2, 30, 0>>, <<12, 34, 56>> }

\* The arguments of one call get_nearest_day_before(year, month, day, hour,
\* min, sec, &timezone).
Requests ==
    { [year |-> ym[1], month |-> ym[2], day |-> d, hour |-> t[1], min |-> t[2],
       sec |-> t[3], timezone |-> z] :
      ym \in RequestMonths, d \in 1..MaxRequestDay, t \in RequestTimes, z \in Zones }

Epoch == DateTime(0, 0, "UTC")

InitNearest ==
    /\ from_datetime = Epoch
    /\ to_datetime = Epoch
    /\ cargo_profile \in Profiles
    /\ pc = "ready"
    /\ result = NoResult
    /\ swapped = NoResult
    /\ rezoned = NoResult
    /\ requested \in Requests
    /\ nearest_day = NoResult

\* get_nearest_day_before(year, month, day, hour, min, sec, &timezone)
NearestDayBefore ==
    /\ pc = "ready"
    /\ requested # NoRequest
    /\ nearest_day' = get_nearest_day_before(requested.year, requested.month, requested.day,
                                              requested.hour, requested.min, requested.sec,
                                              requested.timezone, cargo_profile)
    /\ pc' = "nearest"
    /\ UNCHANGED <<from_datetime, to_datetime, cargo_profile, result, swapped, rezoned,
                   requested>>

NextNearest == NearestDayBefore

SpecNearest == InitNearest /\ [][NextNearest]_vars

\* ---------------------------------------------------------------- properties
Returned(r) == r.status = "ok"

\* The thirteen fields of a returned DateComponent, invert left out.
Numeric(r) ==
    <<r.year, r.month, r.week, r.modulo_days, r.day, r.hour, r.minute, r.second,
      r.interval_seconds, r.interval_minutes, r.interval_hours, r.interval_days>>

\* The calendar components of a returned DateComponent.
Calendar(r) == <<r.year, r.month, r.week, r.modulo_days, r.day>>

AllZero == <<0, 0, 0, 0, 0, 0, 0, 0, 0, 0, 0, 0>>

\* a is physically after b, whatever their zones.
After(a, b) == a.ts > b.ts \/ (a.ts = b.ts /\ a.ms > b.ms)

SameMoment(a, b) == a.ts = b.ts /\ a.ms = b.ms

\* Whole seconds elapsed between two instants: the floor of the absolute
\* elapsed time, from the physical instants alone.
Elapsed(a, b) ==
    LET hi == IF After(a, b) THEN a ELSE b
        lo == IF After(a, b) THEN b ELSE a
    IN  hi.ts - lo.ts - (IF hi.ms < lo.ms THEN 1 ELSE 0)

\* C1: for two instants of one zone that are different physical moments,
\* calculate(a, b) and calculate(b, a) both return or both fail, and when they
\* return they agree on every field except invert, which is negated.
C1_Symmetry ==
    (pc \in {"swapped", "rezoned"} /\ from_datetime.tz = to_datetime.tz
        /\ ~SameMoment(from_datetime, to_datetime))
    => /\ result.status = swapped.status
       /\ Returned(result) =>
            /\ Numeric(result) = Numeric(swapped)
            /\ result.invert = ~swapped.invert

\* C2: calculate returns a DateComponent for every pair of instants: it neither
\* panics nor fails to return.
C2_Total == pc # "ready" => Returned(result)

\* C3: whenever calculate returns, hour = interval_hours mod 24,
\* minute = interval_minutes mod 60 and second = interval_seconds mod 60.
C3_TimeOfDayFromDuration ==
    (pc # "ready" /\ Returned(result))
    => /\ result.hour = result.interval_hours % 24
       /\ result.minute = result.interval_minutes % 60
       /\ result.second = result.interval_seconds % 60

\* C4: whenever two instants of one zone are less than 24 hours apart and
\* calculate returns, day = 0 and modulo_days = 0.
C4_ShortSpanNoDay ==
    (pc # "ready" /\ Returned(result)
        /\ from_datetime.tz = to_datetime.tz
        /\ Elapsed(from_datetime, to_datetime) < 86400)
    => result.day = 0 /\ result.modulo_days = 0

\* C5: whenever calculate returns, invert is true exactly when the first
\* argument is physically after the second.
C5_InvertIffAfter ==
    (pc # "ready" /\ Returned(result))
    => (result.invert <=> After(from_datetime, to_datetime))

\* C6: whenever calculate returns, the flat totals are the floor conversions of
\* the whole seconds D elapsed between the two physical instants:
\* interval_seconds = D, interval_minutes = D div 60, interval_hours = D div 3600,
\* interval_days = D div 86400.
C6_FlatTotals ==
    (pc # "ready" /\ Returned(result))
    => LET D == Elapsed(from_datetime, to_datetime)
       IN  /\ result.interval_seconds = D
           /\ result.interval_minutes = D \div 60
           /\ result.interval_hours = D \div 3600
           /\ result.interval_days = D \div 86400

\* C6 happens: a returned result for two instants of different zones, the first
\* after the second by more than a day and a fraction of a second.
C6_Witness ==
    /\ pc # "ready" /\ Returned(result)
    /\ from_datetime.tz # to_datetime.tz
    /\ After(from_datetime, to_datetime)
    /\ from_datetime.ms < to_datetime.ms
    /\ result.interval_days >= 1
    /\ result.interval_seconds % 60 # 0

\* C7: calculate(x, x) returns 0 in every numeric field and invert = false.
C7_ZeroInterval ==
    (pc # "ready" /\ from_datetime = to_datetime)
    => /\ Returned(result)
       /\ Numeric(result) = AllZero
       /\ result.invert = FALSE

\* C8: for two instants that are the same physical moment in different zones,
\* a returned result is 0 in every numeric field with invert = false.
C8_SameMomentOtherZone ==
    (pc # "ready" /\ Returned(result)
        /\ SameMoment(from_datetime, to_datetime)
        /\ from_datetime.tz # to_datetime.tz)
    => Numeric(result) = AllZero /\ result.invert = FALSE

\* C9: for two instants of different zones, when both calls return, the
\* calendar components of calculate(a, b) are those of calculate on start and on
\* end converted to start's zone.
C9_EndInStartZone ==
    (pc = "rezoned" /\ from_datetime.tz # to_datetime.tz
        /\ Returned(result) /\ Returned(rezoned))
    => Calendar(result) = Calendar(rezoned)

\* C10: for two instants of different zones at least one whole second apart,
\* when both calls return, calculate(a, b) and calculate(b, a) agree on every
\* field except invert, which is flipped.
C10_SwapAcrossZones ==
    (pc \in {"swapped", "rezoned"} /\ from_datetime.tz # to_datetime.tz
        /\ Elapsed(from_datetime, to_datetime) >= 1
        /\ Returned(result) /\ Returned(swapped))
    => /\ Numeric(result) = Numeric(swapped)
       /\ result.invert = ~swapped.invert

\* The week split of a returned DateComponent r.
WeekSplit(r) ==
    /\ r.day >= 0
    /\ r.week = r.day \div 7
    /\ r.modulo_days = r.day % 7
    /\ r.week * 7 + r.modulo_days = r.day

\* C11: every returned result, whichever of the three calls produced it, has
\* day >= 0, week = day div 7 and modulo_days = day mod 7, so that
\* week * 7 + modulo_days = day.
C11_WeekDecomposition ==
    \A r \in {result, swapped, rezoned} : Returned(r) => WeekSplit(r)

\* C11 happens: a returned result of more than a week that is not a whole
\* number of weeks.
C11_Witness ==
    Returned(result) /\ result.week >= 1 /\ result.modulo_days >= 1

\* C12: every returned result has year >= 0 and 0 <= month <= 11, in either
\* argument order.
C12_YearMonthRange ==
    \A r \in {result, swapped} :
        Returned(r) => r.year >= 0 /\ r.month >= 0 /\ r.month <= 11

\* C13: every returned result has 0 <= hour <= 23, 0 <= minute <= 59 and
\* 0 <= second <= 59.
C13_TimeOfDayRange ==
    Returned(result)
    => /\ result.hour >= 0 /\ result.hour <= 23
       /\ result.minute >= 0 /\ result.minute <= 59
       /\ result.second >= 0 /\ result.second <= 59

\* start and end as calculate orders its two arguments.
Start == Ordering(from_datetime, to_datetime)[1]
End == Ordering(from_datetime, to_datetime)[2]

SameZone == from_datetime.tz = to_datetime.tz

Min(a, b) == IF a <= b THEN a ELSE b

\* The length of the month before the month of the civil fields e.
BorrowedLength(e) == DaysInMonth(previous_year(e), previous_month(e))

\* The day count of C14 for the civil fields s of start and e of end.
BorrowedDays(s, e) == BorrowedLength(e) - Min(s.day, BorrowedLength(e)) + e.day

\* r borrows one month and counts the days of C14.
MonthBorrowed(s, e, r) ==
    /\ r.month = (e.month - s.month - 1 + 12) % 12
    /\ r.day = BorrowedDays(s, e)

\* The civil time the borrow starts from: the latest valid day <= start's day
\* in the month before end's month, at end's time of day, in zone tz.
BorrowedFrom(tz, s, e) ==
    with_ymd_and_hms(tz, previous_year(e), previous_month(e),
                     Min(s.day, BorrowedLength(e)), e.hour, e.minute, e.second)

\* The zone's offset is the same at the (single) instant x as at end.
SameOffset(x, end) ==
    Len(x) = 1 /\ OffsetAt(end.tz, x[1].ts) = OffsetAt(end.tz, end.ts)

SameDayOfYear(s, e) ==
    /\ s.month = e.month /\ s.day = e.day
    /\ s.hour = e.hour /\ s.minute = e.minute /\ s.second = e.second

\* Calendar days from the civil date of s to that of e.
DaysBetween(s, e) ==
    DaysFromCivil(e.year, e.month, e.day) - DaysFromCivil(s.year, s.month, s.day)

\* r is exactly e.year - s.year years, with the true count of days.
WholeYears(s, e, r) ==
    /\ Returned(r)
    /\ r.year = e.year - s.year /\ r.month = 0 /\ r.day = 0
    /\ r.hour = 0 /\ r.minute = 0 /\ r.second = 0
    /\ r.interval_days = DaysBetween(s, e)

\* C15: for start and end of one zone, at the same UTC offset, with the same
\* civil month, day and time of day n >= 1 years apart, calculate returns
\* year = n, month = 0, day = 0, hour = minute = second = 0 and interval_days
\* the true count of days.
C15_WholeYears ==
    (pc # "ready" /\ SameZone
        /\ OffsetAt(Start.tz, Start.ts) = OffsetAt(End.tz, End.ts)
        /\ SameDayOfYear(Fields(Start), Fields(End))
        /\ Fields(End).year > Fields(Start).year)
    => WholeYears(Fields(Start), Fields(End), result)

\* The civil fields s and e have the same time of day.
SameTimeOfDay(s, e) ==
    s.hour = e.hour /\ s.minute = e.minute /\ s.second = e.second

\* The month of e is the month after the month of s.
NextMonth(s, e) ==
    \/ e.year = s.year /\ e.month = s.month + 1
    \/ e.year = s.year + 1 /\ e.month = 1 /\ s.month = 12

FixedOffset == SameZone /\ from_datetime.tz = "UTC"

\* r is exactly one month.
OneMonth(r) == Returned(r) /\ r.year = 0 /\ r.month = 1 /\ r.day = 0

\* C16: for two instants of a fixed-offset zone on the same day of month at
\* the same time of day in consecutive months (December to January included),
\* calculate returns year = 0, month = 1, day = 0 in both argument orders.
C16_ConsecutiveMonths ==
    (pc \in {"swapped", "rezoned"} /\ FixedOffset
        /\ NextMonth(Fields(Start), Fields(End))
        /\ Fields(Start).day = Fields(End).day
        /\ SameTimeOfDay(Fields(Start), Fields(End)))
    => OneMonth(result) /\ OneMonth(swapped) /\ result.invert = ~swapped.invert

\* C16 happens: from a day of January back to the same day of December, both
\* orders computed.
C16_Witness ==
    /\ pc = "swapped" /\ FixedOffset
    /\ Fields(from_datetime).month = 1 /\ Fields(to_datetime).month = 12
    /\ Fields(from_datetime).day = Fields(to_datetime).day
    /\ SameTimeOfDay(Fields(from_datetime), Fields(to_datetime))
    /\ OneMonth(result) /\ result.invert /\ OneMonth(swapped)

\* r is exactly k days.
WholeDays(k, r) ==
    /\ Returned(r) /\ r.year = 0 /\ r.month = 0
    /\ r.day = k /\ r.week = k \div 7 /\ r.modulo_days = k % 7

\* C17: for two instants of a fixed-offset zone with the same time of day
\* exactly k days apart, 1 <= k <= 27, calculate returns year = 0, month = 0,
\* day = k, week = k div 7 and modulo_days = k mod 7, across month and year
\* ends too.
C17_WholeDays ==
    (pc # "ready" /\ FixedOffset
        /\ SameTimeOfDay(Fields(Start), Fields(End))
        /\ DaysBetween(Fields(Start), Fields(End)) \in 1..27)
    => WholeDays(DaysBetween(Fields(Start), Fields(End)), result)

\* C17 happens: 27 days from the end of one year into the next.
C17_Witness ==
    /\ pc # "ready" /\ FixedOffset
    /\ SameTimeOfDay(Fields(Start), Fields(End))
    /\ Fields(End).year = Fields(Start).year + 1
    /\ DaysBetween(Fields(Start), Fields(End)) = 27
    /\ WholeDays(27, result)

\* The civil fields s and e are on the same date.
SameDate(s, e) == s.year = e.year /\ s.month = e.month /\ s.day = e.day

TimeOfDay(f) == <<f.hour, f.minute, f.second>>

\* C18: on a spring-forward day, for start = 01:59:59 and end = 03:00:00 local
\* time of one zone, one physical second apart, calculate returns second = 1,
\* hour = 0, minute = 0, every calendar field 0, interval_seconds = 1 and
\* interval_minutes = interval_hours = 0.
C18_SpringForward ==
    (pc # "ready" /\ SameZone
        /\ SameDate(Fields(Start), Fields(End))
        /\ TimeOfDay(Fields(Start)) = <<1, 59, 59>>
        /\ TimeOfDay(Fields(End)) = <<3, 0, 0>>
        /\ End.ts - Start.ts = 1)
    => /\ Returned(result)
       /\ result.second = 1 /\ result.hour = 0 /\ result.minute = 0
       /\ Calendar(result) = <<0, 0, 0, 0, 0>>
       /\ result.interval_seconds = 1
       /\ result.interval_minutes = 0 /\ result.interval_hours = 0

\* C19: on a fall-back day, for two instants of one zone whose local clocks
\* differ by 2 hours and which are physically 3 hours apart, calculate returns
\* hour = 3 and interval_hours = 3.
C19_FallBack ==
    (pc # "ready" /\ SameZone
        /\ SameDate(Fields(Start), Fields(End))
        /\ Fields(End).hour - Fields(Start).hour = 2
        /\ Fields(End).minute = Fields(Start).minute
        /\ Fields(End).second = Fields(Start).second
        /\ End.ts - Start.ts = 3 * 3600)
    => Returned(result) /\ result.hour = 3 /\ result.interval_hours = 3

\* The civil fields of the request q with the day of month replaced by d.
RequestedOn(q, d) ==
    [year |-> q.year, month |-> q.month, day |-> d,
     hour |-> q.hour, minute |-> q.min, second |-> q.sec]

\* The LocalResult of the civil time of the request q on day d.
Resolves(q, d) == with_ymd_and_hms(q.timezone, q.year, q.month, d, q.hour, q.min, q.sec)

\* The days of month d <= q.day on which the civil time of q exists.
ResolvingDays(q) == { d \in 1..q.day : Resolves(q, d) # <<>> }

Max(S) == CHOOSE x \in S : \A y \in S : y <= x

SameMonthDate_exchanged(tz, s, e) ==
    with_ymd_and_hms(tz, s.year, s.month, e.day, e.hour, e.minute, e.second)

\* The LocalResult lines 79-87 unwrap: start's day in end's month at end's
\* time of day, in timezone.
SameMonthDate(tz, s, e) ==
    with_ymd_and_hms(tz, e.year, e.month, s.day, e.hour, e.minute, e.second)

\* calculate reaches a call of get_nearest_day_before for the civil fields s
\* of start and e of end: a day, an hour or a minute is borrowed, and the
\* unwrap of lines 79-87, when it comes first, has not panicked.
HelperReached(tz, s, e) ==
    /\ calls_nearest(s, e)
    /\ e.day - s.day >= 0 => Len(SameMonthDate(tz, s, e)) = 1

\* What that call does: its arguments are the month before end's month,
\* start's day and end's time of day, in calculate's timezone.
HelperCall(tz, s, e, profile) ==
    get_nearest_day_before(previous_year(e), previous_month(e), s.day,
                           e.hour, e.minute, e.second, tz, profile)

\* The call the current calculate(from_datetime, to_datetime) makes.
HelperCalled == HelperReached(from_datetime.tz, Fields(Start), Fields(End))
CalledHelper == HelperCall(from_datetime.tz, Fields(Start), Fields(End), cargo_profile)

\* C21: every call of get_nearest_day_before that calculate makes returns,
\* after at most 31 iterations of its loop (subtract counts the iterations
\* before the last one).
C21_HelperTerminates ==
    (pc # "ready" /\ HelperCalled)
    => Returned(CalledHelper) /\ CalledHelper.subtract + 1 <= 31

\* Months from the civil month of s to that of e.
MonthsBetween(s, e) == (e.year * 12 + e.month) - (s.year * 12 + s.month)

\* The month borrowed when end's day of month is smaller than start's.
DayBorrow(s, e) == IF e.day < s.day THEN 1 ELSE 0

\* C22: for start and end of one zone, a returned result has
\* year * 12 + month = months from start's civil month to end's, less 1 when
\* end's day of month is smaller than start's.
C22_MonthTotal ==
    (Returned(result) /\ SameZone)
    => result.year * 12 + result.month
         = MonthsBetween(Fields(Start), Fields(End)) - DayBorrow(Fields(Start), Fields(End))

\* C22 happens: a day borrow makes the month difference negative, a year is
\* borrowed and twelve months added (a day late in December to an earlier day
\* of January).
C22_Witness ==
    /\ Returned(result) /\ SameZone
    /\ Fields(End).year = Fields(Start).year + 1
    /\ Fields(End).month - Fields(Start).month - DayBorrow(Fields(Start), Fields(End)) = -12
    /\ result.year = 0 /\ result.month = 0

\* No field of e below the year is smaller than that of s.
NoBorrow(s, e) ==
    /\ e.month >= s.month /\ e.day >= s.day
    /\ e.hour >= s.hour /\ e.minute >= s.minute /\ e.second >= s.second

\* Every component of r is the difference of the fields of e and s.
FieldDifferences(s, e, r) ==
    /\ Returned(r)
    /\ r.year = e.year - s.year /\ r.month = e.month - s.month
    /\ r.day = e.day - s.day /\ r.hour = e.hour - s.hour
    /\ r.minute = e.minute - s.minute /\ r.second = e.second - s.second

\* C23: for two instants of a fixed-offset zone where end's month, day, hour,
\* minute and second are each at least start's, calculate returns the plain
\* field differences in year, month, day, hour, minute and second.
C23_NoBorrowDifferences ==
    (pc # "ready" /\ FixedOffset /\ NoBorrow(Fields(Start), Fields(End)))
    => FieldDifferences(Fields(Start), Fields(End), result)

\* C23 happens: from 2020-01-15 00:00:00 to 2024-02-29 12:34:56, every
\* component non-zero.
C23_Witness ==
    /\ pc # "ready" /\ FixedOffset /\ NoBorrow(Fields(Start), Fields(End))
    /\ Returned(result)
    /\ result.year = 4 /\ result.month = 1 /\ result.day = 14
    /\ result.hour = 12 /\ result.minute = 34 /\ result.second = 56

\* The fields of a returned DateComponent that depend on the physical
\* duration only.
DurationFields(r) ==
    <<r.interval_seconds, r.interval_minutes, r.interval_hours, r.interval_days,
      r.hour, r.minute, r.second>>

\* C24: calculate on two instants of different zones and calculate on the same
\* two physical moments with the later one attached to the earlier one's zone
\* return, when both return, the same flat totals and the same hour, minute
\* and second.
C24_ZoneIndependentFields ==
    (pc = "rezoned" /\ from_datetime.tz # to_datetime.tz
        /\ Returned(result) /\ Returned(rezoned))
    => DurationFields(result) = DurationFields(rezoned)

\* C25: whenever end's day of month is not smaller than start's, start's day
\* is a date of end's month and year: the civil date built in that branch
\* resolves in a zone without gaps, so it can fail for its time of day only.
C25_StartDayValid ==
    (pc # "ready" /\ Fields(End).day >= Fields(Start).day)
    => SameMonthDate("UTC", Fields(Start), Fields(End)) # <<>>

\* C25 happens: start on the 31st of one month and end on the 31st of a later
\* one, attached to different zones, and calculate returned.
C25_Witness ==
    /\ pc # "ready" /\ Returned(result)
    /\ from_datetime.tz # to_datetime.tz
    /\ Fields(Start).day = 31 /\ Fields(End).day = 31
    /\ Fields(Start).month # Fields(End).month

\* The civil date <<y, m, d>> n months after the civil date of f, the day
\* clamped to the last day of the month reached.
ClampDay(y, m, d) == <<y, m, Min(d, DaysInMonth(y, m))>>
MonthOf(months, d) == ClampDay(months \div 12, (months % 12) + 1, d)
AddMonths(f, n) == MonthOf(f.year * 12 + (f.month - 1) + n, f.day)

\* Seconds from 1970-01-01 00:00:00 of the civil date ymd at the time of day
\* of f, on the zone's own clock.
LocalSecond(ymd, f) ==
    DaysFromCivil(ymd[1], ymd[2], ymd[3]) * 86400 + f.hour * 3600 + f.minute * 60 + f.second

\* The local second reached from the civil fields s by adding the components
\* of r: years and months first, then days, hours, minutes and seconds.
Advance(s, r) ==
    LocalSecond(AddMonths(s, r.year * 12 + r.month), s)
        + r.day * 86400 + r.hour * 3600 + r.minute * 60 + r.second

\* C26: in a fixed-offset zone, for start <= end, adding the returned year,
\* month (day clamped), day, hour, minute and second to start gives end.
C26_ExactDecomposition ==
    (pc # "ready" /\ FixedOffset /\ Returned(result))
    => Advance(Fields(Start), result) = End.ts

\* The calendar difference of a returned DateComponent, and its
\* lexicographic order.
Triple(r) == <<r.year, r.month, r.day>>

LexLeq(a, b) ==
    \/ a[1] < b[1]
    \/ a[1] = b[1] /\ a[2] < b[2]
    \/ a[1] = b[1] /\ a[2] = b[2] /\ a[3] <= b[3]

\* r1 is returned with a calendar difference at most that of r.
NotLater(r1, r) == Returned(r1) /\ LexLeq(Triple(r1), Triple(r))

\* C27: in a fixed-offset zone, for a start and two ends e1 <= e2 at or after
\* it, the (year, month, day) of calculate(start, e1) is lexicographically at
\* most that of calculate(start, e2).
C27_Monotone ==
    (pc = "calculated" /\ FixedOffset /\ from_datetime.ts <= to_datetime.ts)
    => /\ Returned(result)
       /\ \A e1 \in EarlierEnds(from_datetime, to_datetime) :
             NotLater(calculate(from_datetime, e1, cargo_profile), result)

\* C27 happens: from 2020-01-31 the end 2020-03-01 gives (0, 1, 1), start's
\* day clamped to February 29, and the end one day earlier gives (0, 0, 29).
C27_Witness ==
    /\ pc = "calculated" /\ FixedOffset
    /\ Fields(from_datetime).month = 1 /\ Fields(from_datetime).day = 31
    /\ Fields(to_datetime).month = 3 /\ Fields(to_datetime).day = 1
    /\ Fields(to_datetime).year = 2020
    /\ Triple(result) = <<0, 1, 1>>
    /\ \E e1 \in EarlierEnds(from_datetime, to_datetime) :
          Triple(calculate(from_datetime, e1, cargo_profile)) = <<0, 0, 29>>

\* C28: every result for two instants of a fixed-offset zone is returned with
\* 0 <= day <= 30 and week <= 4, a month borrowed or not.
C28_DayBelowMonth ==
    (pc # "ready" /\ FixedOffset)
    => /\ Returned(result)
       /\ result.day >= 0 /\ result.day <= 30 /\ result.week <= 4

\* C28 happens: a month is borrowed and day reaches 30 (from the 25th of a
\* 31-day month to the 24th of the next).
C28_Witness ==
    /\ pc # "ready" /\ FixedOffset /\ Returned(result)
    /\ Fields(End).day < Fields(Start).day
    /\ result.day = 30 /\ result.week = 4

\* The lowest value of day - subtract that the loop of a call computes: the
\* day of the instant returned, or, when the call does not return, the
\* subtraction below 0 that overflows.
LowestDayTried(call, day) == IF Returned(call) THEN day - call.subtract ELSE -1

\* C29: in every call of get_nearest_day_before that calculate makes,
\* day - subtract stays at least 1 at every iteration of the loop.
C29_NoUnderflow ==
    (pc # "ready" /\ HelperCalled)
    => LowestDayTried(CalledHelper, Fields(Start).day) >= 1

\* C30: whenever calculate returns, the day count the week split starts from
\* is not negative, so week and modulo_days are day / 7 and day % 7 of the
\* branch that is taken.
C30_WeekBranchDead ==
    (pc # "ready" /\ Returned(result))
    => /\ ~(result.day < 0)
       /\ result.week = result.day \div 7
       /\ result.modulo_days = result.day % 7

\* C30 happens: a month is borrowed, the duration from the nearest day to end
\* is negative, and the day count returned is positive.
C30_Witness ==
    /\ pc # "ready" /\ Returned(result)
    /\ Fields(End).day < Fields(Start).day
    /\ result.day >= 1

====
